---- MODULE Spec2Model ----
(***************************************************************************)
(* grammergen: grammar induction by genetic programming.                   *)
(*                                                                         *)
(* The model follows src/grammergen.hpp.  Nodes live in a heap (a sequence *)
(* of node records, a node's identity is its index, 0 is the empty         *)
(* shared_ptr), so that two handles naming the same node object can be     *)
(* told from two equal trees.  A node that no handle reaches any more is   *)
(* released, as shared_ptr does, and the remaining identities are          *)
(* renumbered in traversal order (Commit).                                 *)
(*                                                                         *)
(* A string is a sequence of characters.  The strings the engine parses    *)
(* are std::string values, so the byte right after a string is its         *)
(* terminator NUL (CharAt).  Fitness values are sums of integers and of    *)
(* 1.0, so a double is modelled by its integer value.  A ratio is a pair   *)
(* <<num, den>>; floor(ratio * n) is (num * n) \div den, which agrees with *)
(* the double arithmetic of the code for every accepted ratio of           *)
(* RatioInputs and CountRatios and every size up to MaxCountPop + 1.       *)
(***************************************************************************)
EXTENDS Integers, Sequences, FiniteSets, TLC

\* ------------------------------------------------------------------ bounds
MaxPop == 2           \* tree_number, and the population update starts from
MaxNodeNumber == 2    \* node_number
MaxTreeNodes == 2     \* nodes of a crossover offspring
MaxInitNodes == 2     \* tree_number * node_number where run is followed
MaxStrLen == 1        \* characters of a corpus line
MaxEvalLen == 2       \* characters of a string evaluated directly
MaxInputs == 1        \* corpus lines
MaxUnmodified == 1    \* max_unmodified_count
MaxGen == 4           \* generations one run is followed for
MaxEdits == 1         \* direct mutate_node calls on one population
MaxDirectNodes == 3   \* node_number where the tree operations are called directly
MaxDirectBudget == 4  \* tree_number * node_number there
MaxCountPop == 100    \* population size of the offspring counts

\* The characters of the strings parsed, and the printable characters
\* generate_node draws a word's payload from.
Chars == {"a", "b"}
Printable == {"a"}
NUL == "NUL"
NULL == 0

VARIABLES
  heap,                  \* the node objects: Seq of [kind, str, first, second]
  _grammer_list,         \* generic_programming::_grammer_list (node ids)
  _input_list,           \* generic_programming::_input_list
  _elite_ratio,          \* <<num, den>>
  _mutation_ratio,       \* <<num, den>>
  _max_unmodified_count,
  pc,                    \* position of the caller / of run / of update
  gen,                   \* locals of init_grammer and generate_tree
  upd,                   \* locals of update
  runv,                  \* locals of run
  obs                    \* what the last operation returned (observed by the caller)

vars == <<heap, _grammer_list, _input_list, _elite_ratio, _mutation_ratio,
          _max_unmodified_count, pc, gen, upd, runv, obs>>

\* ------------------------------------------------------------- sequences
RECURSIVE Concat(_)
Concat(ss) == IF ss = <<>> THEN <<>> ELSE Head(ss) \o Concat(Tail(ss))

\* s without the repetitions of an element (the first occurrence stays).
RECURSIVE DedupFrom(_, _)
DedupFrom(s, seen) ==
  IF s = <<>> THEN <<>>
  ELSE IF Head(s) \in seen THEN DedupFrom(Tail(s), seen)
       ELSE <<Head(s)>> \o DedupFrom(Tail(s), seen \cup {Head(s)})

Dedup(s) == DedupFrom(s, {})

IndexOf(s, x) == CHOOSE i \in 1..Len(s) : s[i] = x

RemoveAt(s, i) == SubSeq(s, 1, i - 1) \o SubSeq(s, i + 1, Len(s))

RECURSIVE SumSeq(_)
SumSeq(s) == IF s = <<>> THEN 0 ELSE Head(s) + SumSeq(Tail(s))

StringsUpTo(n) == UNION {[1..k -> Chars] : k \in 0..n}

\* ------------------------------------------------------------ node kinds
operand_number(kind) ==
  CASE kind = "join" -> 2
    [] kind = "or_" -> 2
    [] kind = "word" -> 0
    [] kind = "optional" -> 1

\* join::name, or_::name, word::name, optional::name
name(kind) ==
  CASE kind = "join" -> "+"
    [] kind = "or_" -> "|"
    [] kind = "word" -> "word"
    [] kind = "optional" -> "?"

\* generate_node(): one of the four kinds, children empty; a word holds one
\* printable character.
generate_node ==
  {[kind |-> k, str |-> <<>>, first |-> NULL, second |-> NULL] :
      k \in {"join", "or_", "optional"}}
  \cup {[kind |-> "word", str |-> <<c>>, first |-> NULL, second |-> NULL] :
          c \in Printable}

\* --------------------------------------------------------------- the heap
RECURSIVE Reach(_, _)
Reach(h, r) ==
  IF r = NULL THEN <<>>
  ELSE <<r>> \o Reach(h, h[r].first) \o Reach(h, h[r].second)

\* Number of node objects of the tree under r (each counted as often as it is
\* reached).
NodeCount(h, r) == Len(Reach(h, r))

\* grammer::size and optional::size
RECURSIVE size(_, _)
size(h, n) ==
  LET nd == h[n] IN
  IF nd.kind = "optional"
  THEN 1 + (IF nd.first # NULL THEN 2 * size(h, nd.first) ELSE 0)
  ELSE 1 + (IF nd.first # NULL THEN size(h, nd.first) ELSE 0)
         + (IF nd.second # NULL THEN size(h, nd.second) ELSE 0)

\* grammer::print and word::print, as a sequence of tokens
RECURSIVE print(_, _)
print(h, n) ==
  LET nd == h[n] IN
  IF nd.kind = "word" THEN <<"\"">> \o nd.str \o <<"\"">>
  ELSE <<"(", name(nd.kind)>>
       \o (IF nd.first # NULL \/ nd.second # NULL THEN <<" ">> ELSE <<>>)
       \o (IF nd.first # NULL THEN print(h, nd.first) ELSE <<>>)
       \o (IF nd.first # NULL /\ nd.second # NULL THEN <<" ">> ELSE <<>>)
       \o (IF nd.second # NULL THEN print(h, nd.second) ELSE <<>>)
       \o <<")">>

\* ---------------------------------------------------------------- parsing
\* The byte at position i of a std::string: its terminator right after the end.
CharAt(str, i) == IF i <= Len(str) THEN str[i] ELSE NUL

\* impl.str == std::string_view(str.data(), impl.str.size())
WordMatches(p, str) == \A i \in 1..Len(p) : CharAt(str, i) = p[i]

\* parse returns [c: the candidates, m: what it added to ctx.match_count,
\*                k: what it added to ctx.compare_count]
RECURSIVE parse(_, _, _)
RECURSIVE ParseEach(_, _, _)
\* for (auto rest : rests) for (auto s : node->parse(rest, ctx)) push_back(s)
ParseEach(h, n, rests) ==
  IF rests = <<>> THEN [c |-> <<>>, m |-> 0, k |-> 0]
  ELSE LET r1 == parse(h, n, Head(rests))
           r2 == ParseEach(h, n, Tail(rests))
       IN [c |-> r1.c \o r2.c, m |-> r1.m + r2.m, k |-> r1.k + r2.k]

parse(h, n, str) ==
  LET nd == h[n]
      none == [c |-> <<>>, m |-> 0, k |-> 0]
  IN
  CASE nd.kind = "word" ->
         LET cands == IF WordMatches(nd.str, str)
                      THEN <<SubSeq(str, Len(nd.str) + 1, Len(str))>>
                      ELSE <<>>
         IN [c |-> cands, m |-> Len(cands), k |-> size(h, n)]
    [] nd.kind = "join" ->
         IF nd.first # NULL /\ nd.second # NULL
         THEN LET r1 == parse(h, nd.first, str)
                  r2 == ParseEach(h, nd.second, r1.c)
              IN [c |-> r2.c, m |-> r1.m + r2.m, k |-> size(h, n) + r1.k + r2.k]
         ELSE [c |-> <<>>, m |-> 0, k |-> size(h, n)]
    [] nd.kind = "or_" ->
         LET r1 == IF nd.first # NULL THEN parse(h, nd.first, str) ELSE none
             r2 == IF nd.second # NULL THEN parse(h, nd.second, str) ELSE none
         IN [c |-> r1.c \o r2.c, m |-> r1.m + r2.m, k |-> size(h, n) + r1.k + r2.k]
    [] nd.kind = "optional" ->
         LET r1 == IF nd.first # NULL THEN parse(h, nd.first, str) ELSE none
         IN [c |-> Append(r1.c, str), m |-> r1.m, k |-> size(h, n) + r1.k]

\* grammer::match
match(candidates) ==
  IF candidates = <<>> THEN FALSE
  ELSE \A i \in 1..Len(candidates) : candidates[i] = <<>>

\* grammer::evaluate(str)
evaluate(h, n, str) ==
  LET r == parse(h, n, str)
  IN IF match(r.c) THEN 1 ELSE r.m

\* generic_programming::evaluate(grm): the sum over the corpus
RECURSIVE evaluate_corpus(_, _, _)
evaluate_corpus(h, n, inputs) ==
  IF inputs = <<>> THEN 0
  ELSE evaluate(h, n, Head(inputs)) + evaluate_corpus(h, n, Tail(inputs))

\* -------------------------------------------------------------- cloning
\* join::clone, or_::clone, optional::clone, word::clone: the new heap and the
\* root of the copy.  optional::clone drops second; word::clone copies the
\* payload only.
RECURSIVE clone(_, _)
clone(h, n) ==
  LET nd == h[n]
      c1 == IF nd.first # NULL THEN clone(h, nd.first) ELSE [h |-> h, r |-> NULL]
      c2 == IF nd.second # NULL /\ nd.kind \in {"join", "or_"}
            THEN clone(c1.h, nd.second) ELSE [h |-> c1.h, r |-> NULL]
  IN IF nd.kind = "word"
     THEN [h |-> Append(h, [kind |-> "word", str |-> nd.str,
                            first |-> NULL, second |-> NULL]),
           r |-> Len(h) + 1]
     ELSE [h |-> Append(c2.h, [kind |-> nd.kind, str |-> <<>>,
                               first |-> c1.r, second |-> c2.r]),
           r |-> Len(c2.h) + 1]

\* ------------------------------------------------------- slot references
\* A std::shared_ptr<grammer>& names a slot: <<NULL, "root">> is the handle the
\* caller holds, <<n, "first">> and <<n, "second">> are the fields of node n.
RootSlot == <<NULL, "root">>

SlotGet(h, root, slot) ==
  CASE slot[2] = "root" -> root
    [] slot[2] = "first" -> h[slot[1]].first
    [] slot[2] = "second" -> h[slot[1]].second

\* Writing id v through a slot reference: the new heap and the new root handle.
SlotSet(h, root, slot, v) ==
  CASE slot[2] = "root" -> [h |-> h, r |-> v]
    [] slot[2] = "first" -> [h |-> [h EXCEPT ![slot[1]].first = v], r |-> root]
    [] slot[2] = "second" -> [h |-> [h EXCEPT ![slot[1]].second = v], r |-> root]

\* get_nodes: references to every slot that holds a node, root first, then the
\* subtree of first, then the subtree of second.
RECURSIVE push(_, _, _)
push(h, slot, n) ==
  <<slot>>
  \o (IF h[n].first # NULL THEN push(h, <<n, "first">>, h[n].first) ELSE <<>>)
  \o (IF h[n].second # NULL THEN push(h, <<n, "second">>, h[n].second) ELSE <<>>)

get_nodes(h, root) == push(h, RootSlot, root)

\* ------------------------------------------------------------ tree editor
\* impl::optimize_node(node): the heap after the call.
RECURSIVE optimize_node(_, _)
RECURSIVE optimize_node_keep(_, _)
\* (a variant that forgets to clear second of a node of arity 1)
optimize_node_keep(h, n) ==
  IF n = NULL THEN h
  ELSE CASE operand_number(h[n].kind) = 0 ->
              [h EXCEPT ![n].first = NULL, ![n].second = NULL]
         [] operand_number(h[n].kind) = 1 ->
              optimize_node_keep(h, h[n].first)
         [] operand_number(h[n].kind) = 2 ->
              LET h1 == optimize_node_keep(h, h[n].first)
              IN optimize_node_keep(h1, h1[n].second)

optimize_node(h, n) ==
  IF n = NULL THEN h
  ELSE CASE operand_number(h[n].kind) = 0 ->
              [h EXCEPT ![n].first = NULL, ![n].second = NULL]
         [] operand_number(h[n].kind) = 1 ->
              LET h1 == optimize_node(h, h[n].first)
              IN [h1 EXCEPT ![n].second = NULL]
         [] operand_number(h[n].kind) = 2 ->
              LET h1 == optimize_node(h, h[n].first)
              IN optimize_node(h1, h1[n].second)

\* optimize_tree(root)
optimize_tree(h, root) == optimize_node(h, root)

\* for (auto & grm : next_generation) optimize_tree(grm);
RECURSIVE optimize_all(_, _)
optimize_all(h, roots) ==
  IF roots = <<>> THEN h
  ELSE optimize_all(optimize_tree(h, Head(roots)), Tail(roots))

\* mutate_node(node), node a reference to a handle that holds id v, g the node
\* generate_node() returns: the new heap and the id now stored in the handle.
mutate_node(h, v, g) ==
  [h |-> Append(h, [g EXCEPT !.first = h[v].first, !.second = h[v].second]),
   r |-> Len(h) + 1]

\* std::swap of what two slot references name, sa in the tree under a, sb in
\* the tree under b (two trees without a common node): the new heap and the
\* two root handles.
swap_slots(h, a, b, sa, sb) ==
  LET va == SlotGet(h, a, sa)
      vb == SlotGet(h, b, sb)
      wa == SlotSet(h, a, sa, vb)
      wb == SlotSet(wa.h, b, sb, va)
  IN [h |-> wb.h, first |-> wa.r, second |-> wb.r]

\* (a variant that copies b's node into a's slot and leaves b's slot as it was)
copy_slot(h, a, b, sa, sb) ==
  LET wa == SlotSet(h, a, sa, SlotGet(h, b, sb))
  IN [h |-> wa.h, first |-> wa.r, second |-> b]

\* create_crossed_tree(a_root, b_root): what it can return, one outcome for
\* each pair of elements random_element draws from a_nodes and b_nodes.
crossed_of(cb, a_clone, b_clone) ==
  {swap_slots(cb.h, a_clone, b_clone, sa, sb) :
     sa \in {get_nodes(cb.h, a_clone)[i] : i \in 1..Len(get_nodes(cb.h, a_clone))},
     sb \in {get_nodes(cb.h, b_clone)[i] : i \in 1..Len(get_nodes(cb.h, b_clone))}}

crossed_of_copy(cb, a_clone, b_clone) ==
  {copy_slot(cb.h, a_clone, b_clone, sa, sb) :
     sa \in {get_nodes(cb.h, a_clone)[i] : i \in 1..Len(get_nodes(cb.h, a_clone))},
     sb \in {get_nodes(cb.h, b_clone)[i] : i \in 1..Len(get_nodes(cb.h, b_clone))}}

create_crossed_tree_copy(h, a_root, b_root) ==
  UNION {UNION {crossed_of_copy(cb, ca.r, cb.r) : cb \in {clone(ca.h, b_root)}} :
           ca \in {clone(h, a_root)}}

\* (a variant that clones a_root only and swaps with a slot of b_root itself)
create_crossed_tree_noclone(h, a_root, b_root) ==
  UNION {crossed_of(ca, ca.r, b_root) : ca \in {clone(h, a_root)}}

create_crossed_tree(h, a_root, b_root) ==
  UNION {UNION {crossed_of(cb, ca.r, cb.r) : cb \in {clone(ca.h, b_root)}} :
           ca \in {clone(h, a_root)}}

\* select_individual(individuals), individuals a sequence of <<id, weight>>: the
\* ids it can return.  With sum = 0 any element; otherwise rand is drawn in
\* [0, sum] and the walk returns the first individual at which rand - (the
\* weights so far) <= 0: an individual of positive weight, or the first one.
select_individual(individuals) ==
  LET sum == SumSeq([i \in 1..Len(individuals) |-> individuals[i][2]])
  IN IF sum = 0
     THEN {individuals[i][1] : i \in 1..Len(individuals)}
     ELSE {individuals[i][1] :
             i \in {j \in 1..Len(individuals) : j = 1 \/ individuals[j][2] > 0}}

\* ------------------------------------------------------------ the engine
\* (a variant that rounds to the nearest integer)
floor_round(ratio, n) == (2 * ratio[1] * n + ratio[2]) \div (2 * ratio[2])

\* static_cast<std::size_t>(std::floor(ratio * size))
floor_ratio(ratio, n) == (ratio[1] * n) \div ratio[2]

elite_number(ratio, n) == floor_ratio(ratio, n)

mutation_number(ratio, n) == floor_ratio(ratio, n)

\* for (i = next_generation.size(); i < _grammer_list.size(); ++i): the number
\* of iterations, each of which appends one offspring.
RECURSIVE crossover_number(_, _)
crossover_number(i, n) == IF i < n THEN 1 + crossover_number(i + 1, n) ELSE 0

\* (a variant that takes a lower best for no change too)
run_equal_le(eval, prev_eval) == eval <= prev_eval

\* if (eval == prev_eval)
run_equal(eval, prev_eval) == eval = prev_eval

\* (a variant that stops one generation early)
run_stops_ge(unmodified_count, max_unmodified_count) ==
  unmodified_count >= max_unmodified_count

\* if (unmodified_count > _max_unmodified_count) break;
run_stops(unmodified_count, max_unmodified_count) ==
  unmodified_count > max_unmodified_count

\* The outcomes of std::sort with a.second > b.second: the orders of the pairs
\* <<id, value>> in which the values never increase (ties in any order).
sort_outcomes(evaluated) ==
  {[i \in 1..Len(evaluated) |-> evaluated[p[i]]] : p \in
     {q \in Permutations(1..Len(evaluated)) :
        \A i \in 1..(Len(evaluated) - 1) : evaluated[q[i]][2] >= evaluated[q[i + 1]][2]}}

\* rankinged_grammers: the i-th best (from 0) gets weight size - i.
rankinged(evaluated) ==
  [i \in 1..Len(evaluated) |-> <<evaluated[i][1], Len(evaluated) - (i - 1)>>]

\* The structure under a handle, field by field (kind, payload, first, second).
RECURSIVE shape(_, _)
shape(h, n) ==
  IF n = NULL THEN <<>>
  ELSE <<h[n].kind, h[n].str, shape(h, h[n].first), shape(h, h[n].second)>>

\* ------------------------------------------------------------ the state
GenIdle == [n |-> 0, k |-> 0, idx |-> 0, root |-> NULL, terminals |-> <<>>, i |-> 0]

\* clone, sel, node, g: the mutation loop's locals at the end of its body (the
\* clone, the index random_element drew, the handle node, and what
\* generate_node returned).
UpdIdle == [caller |-> "", evaluated |-> <<>>, next_generation |-> <<>>, i |-> 0,
            clone |-> NULL, sel |-> 0, node |-> NULL,
            g |-> [kind |-> "", str |-> <<>>]]

RunIdle == [unmodified_count |-> 0, prev_eval |-> 0, eval |-> 0, evals |-> <<>>]

ObsNone == [op |-> "", idx |-> 0, ret |-> 0, cands |-> <<>>, str |-> <<>>,
            m |-> 0, first |-> NULL, second |-> NULL, a |-> <<>>, b |-> <<>>,
            edits |-> 0]

\* The handles alive in a state, and the release of every node none of them
\* reaches: the surviving nodes are renumbered in the order the handles reach
\* them.
Roots(gl, g, u, o) ==
  gl \o <<g.root>> \o [i \in 1..Len(u.evaluated) |-> u.evaluated[i][1]]
     \o u.next_generation \o <<u.clone, u.node, o.first, o.second>>

Renaming(h, order) ==
  [x \in 0..Len(h) |-> IF \E i \in 1..Len(order) : order[i] = x
                        THEN IndexOf(order, x) ELSE NULL]

Commit(h, gl, g, u, o) ==
  \E roots \in {Roots(gl, g, u, o)} :
  \E order \in {Dedup(Concat([i \in 1..Len(roots) |-> Reach(h, roots[i])]))} :
  \E rn \in {Renaming(h, order)} :
  LET ren(x) == rn[x]
  IN /\ heap' = [i \in 1..Len(order) |->
                   [h[order[i]] EXCEPT !.first = ren(@), !.second = ren(@)]]
     /\ _grammer_list' = [i \in 1..Len(gl) |-> ren(gl[i])]
     /\ gen' = [g EXCEPT !.root = ren(@),
                         !.terminals = [i \in 1..Len(g.terminals) |->
                                          <<ren(g.terminals[i][1]), g.terminals[i][2]>>]]
     /\ upd' = [u EXCEPT !.evaluated = [i \in 1..Len(u.evaluated) |->
                                          <<ren(u.evaluated[i][1]), u.evaluated[i][2]>>],
                         !.next_generation = [i \in 1..Len(u.next_generation) |->
                                                ren(u.next_generation[i])],
                         !.clone = ren(@), !.node = ren(@)]
     /\ obs' = [o EXCEPT !.first = ren(@), !.second = ren(@)]

\* The arguments of the setters: in range, above one, below zero.
RatioInputs == {<<0, 1>>, <<1, 2>>, <<1, 1>>, <<3, 2>>, <<-1, 2>>}

\* generic_programming(): empty lists, ratios and threshold zero.
Init ==
  /\ heap = <<>>
  /\ _grammer_list = <<>>
  /\ _input_list = <<>>
  /\ _elite_ratio = <<0, 1>>
  /\ _mutation_ratio = <<0, 1>>
  /\ _max_unmodified_count = 0
  /\ pc = "setup"
  /\ gen = GenIdle
  /\ upd = UpdIdle
  /\ runv = RunIdle
  /\ obs = ObsNone

\* ---------------------------------------------------------- configuration
set_elite_ratio(elite_ratio) ==
  /\ pc = "setup"
  /\ IF elite_ratio[1] < 0 \/ elite_ratio[1] > elite_ratio[2]
     THEN /\ obs' = [ObsNone EXCEPT !.op = "invalid_argument"]
          /\ UNCHANGED _elite_ratio
     ELSE /\ _elite_ratio' = elite_ratio
          /\ obs' = ObsNone
  /\ UNCHANGED <<heap, _grammer_list, _input_list, _mutation_ratio,
                 _max_unmodified_count, pc, gen, upd, runv>>

set_mutation_ratio(mutation_ratio) ==
  /\ pc = "setup"
  /\ IF mutation_ratio[1] < 0 \/ mutation_ratio[1] > mutation_ratio[2]
     THEN /\ obs' = [ObsNone EXCEPT !.op = "invalid_argument"]
          /\ UNCHANGED _mutation_ratio
     ELSE /\ _mutation_ratio' = mutation_ratio
          /\ obs' = ObsNone
  /\ UNCHANGED <<heap, _grammer_list, _input_list, _elite_ratio,
                 _max_unmodified_count, pc, gen, upd, runv>>

set_max_unmodified_count(max_unmodified_count) ==
  /\ pc = "setup"
  /\ _max_unmodified_count' = max_unmodified_count
  /\ UNCHANGED <<heap, _grammer_list, _input_list, _elite_ratio, _mutation_ratio,
                 pc, gen, upd, runv, obs>>

append_input(str) ==
  /\ pc = "setup"
  /\ Len(_input_list) < MaxInputs
  /\ _input_list' = Append(_input_list, str)
  /\ UNCHANGED <<heap, _grammer_list, _elite_ratio, _mutation_ratio,
                 _max_unmodified_count, pc, gen, upd, runv, obs>>

\* ------------------------------------------- init_grammer, generate_tree
\* The slots a fresh node with id n opens: first for arity >= 1, second for 2.
open_slots(kind, n) ==
  (IF operand_number(kind) >= 1 THEN << <<n, "first">> >> ELSE <<>>)
  \o (IF operand_number(kind) >= 2 THEN << <<n, "second">> >> ELSE <<>>)

\* _grammer_list.resize(tree_number); the loop then fills one entry at a time.
init_grammer(tree_number, node_number) ==
  /\ pc = "setup"
  /\ _grammer_list' = [i \in 1..tree_number |-> NULL]
  /\ gen' = [GenIdle EXCEPT !.n = tree_number, !.k = node_number, !.idx = 1]
  /\ pc' = "gen_root"
  /\ obs' = ObsNone
  /\ UNCHANGED <<heap, _input_list, _elite_ratio, _mutation_ratio,
                 _max_unmodified_count, upd, runv>>

\* generate_tree, lines 310-314: the root and its open slots.
generate_tree_root ==
  /\ pc = "gen_root"
  /\ \E g \in generate_node :
       /\ heap' = Append(heap, g)
       /\ gen' = [gen EXCEPT !.root = Len(heap) + 1,
                             !.terminals = open_slots(g.kind, Len(heap) + 1),
                             !.i = 1]
  /\ pc' = "gen_loop"
  /\ UNCHANGED <<_grammer_list, _input_list, _elite_ratio, _mutation_ratio,
                 _max_unmodified_count, upd, runv, obs>>

\* generate_tree, one iteration of the loop of lines 315-326.
generate_tree_step ==
  /\ pc = "gen_loop"
  /\ gen.i < gen.k
  /\ gen.terminals # <<>>
  /\ \E g \in generate_node, index \in 1..Len(gen.terminals) :
       LET temp == Len(heap) + 1
           w == SlotSet(Append(heap, g), gen.root, gen.terminals[index], temp)
       IN /\ heap' = w.h
          /\ gen' = [gen EXCEPT !.terminals = RemoveAt(@, index) \o open_slots(g.kind, temp),
                                !.i = @ + 1]
  /\ UNCHANGED <<_grammer_list, _input_list, _elite_ratio, _mutation_ratio,
                 _max_unmodified_count, pc, upd, runv, obs>>

\* generate_tree returns root; init_grammer stores it and goes to the next entry.
generate_tree_return ==
  /\ pc = "gen_loop"
  /\ ~(gen.i < gen.k /\ gen.terminals # <<>>)
  /\ _grammer_list' = [_grammer_list EXCEPT ![gen.idx] = gen.root]
  /\ gen' = [gen EXCEPT !.root = NULL, !.terminals = <<>>, !.i = 0, !.idx = @ + 1]
  /\ pc' = IF gen.idx = gen.n THEN "ready" ELSE "gen_root"
  /\ UNCHANGED <<heap, _input_list, _elite_ratio, _mutation_ratio,
                 _max_unmodified_count, upd, runv, obs>>

\* ------------------------------------------------------------------ update
\* update, lines 445-457: evaluate, sort, rank, and an empty next_generation.
\* The model follows an update only from a population of at most MaxPop.
update_begin(caller) ==
  /\ Len(_grammer_list) <= MaxPop
  /\ \E ev \in sort_outcomes([i \in 1..Len(_grammer_list) |->
               <<_grammer_list[i], evaluate_corpus(heap, _grammer_list[i], _input_list)>>]) :
       /\ upd' = [UpdIdle EXCEPT !.caller = caller, !.evaluated = ev]
       /\ pc' = "u_elite"

\* A caller's update() on the initialized engine.
update_call ==
  /\ pc = "ready"
  /\ update_begin("user")
  /\ obs' = ObsNone
  /\ UNCHANGED <<heap, _grammer_list, _input_list, _elite_ratio, _mutation_ratio,
                 _max_unmodified_count, gen, runv>>

\* update, lines 459-461: the elites are pushed as they are (the same handles).
update_elite ==
  /\ pc = "u_elite"
  /\ upd' = [upd EXCEPT !.next_generation =
               [i \in 1..elite_number(_elite_ratio, Len(_grammer_list)) |->
                  upd.evaluated[i][1]]]
  /\ pc' = "u_loop"
  /\ UNCHANGED <<heap, _grammer_list, _input_list, _elite_ratio, _mutation_ratio,
                 _max_unmodified_count, gen, runv, obs>>

\* The locals of the mutation loop's body die when the body ends.
end_of_body(u) == [u EXCEPT !.clone = NULL, !.sel = 0, !.node = NULL,
                            !.g = UpdIdle.g]

\* update, one iteration of the mutation loop, lines 464-469, up to the end of
\* its body.  node is a copy of the selected handle (random_select_node returns
\* by value), and mutate_node stores the generated node in that local copy.
update_mutate ==
  /\ pc = "u_loop"
  /\ upd.i < mutation_number(_mutation_ratio, Len(_grammer_list))
  /\ \E parent \in select_individual(rankinged(upd.evaluated)) :
       \E c \in {clone(heap, parent)} :
       \E nodes \in {get_nodes(c.h, c.r)} :
       \E sel \in 1..Len(nodes), g \in generate_node :
            LET node == SlotGet(c.h, c.r, nodes[sel])
                mn == mutate_node(c.h, node, g)
            IN Commit(mn.h, _grammer_list, gen,
                      [upd EXCEPT !.next_generation = Append(@, c.r),
                                  !.i = @ + 1,
                                  !.clone = c.r, !.sel = sel, !.node = mn.r,
                                  !.g = [kind |-> g.kind, str |-> g.str]],
                      obs)
  /\ UNCHANGED <<_input_list, _elite_ratio, _mutation_ratio,
                 _max_unmodified_count, pc, runv>>

\* update, one iteration of the crossover loop, lines 471-475.
update_cross ==
  /\ pc = "u_loop"
  /\ ~(upd.i < mutation_number(_mutation_ratio, Len(_grammer_list)))
  /\ Len(upd.next_generation) < Len(_grammer_list)
  /\ \E parent_a, parent_b \in select_individual(rankinged(upd.evaluated)) :
       \E x \in create_crossed_tree(heap, parent_a, parent_b) :
            /\ NodeCount(x.h, x.first) <= MaxTreeNodes
            /\ Commit(x.h, _grammer_list, gen,
                      [end_of_body(upd) EXCEPT !.next_generation = Append(@, x.first)],
                      obs)
  /\ UNCHANGED <<_input_list, _elite_ratio, _mutation_ratio,
                 _max_unmodified_count, pc, runv>>

\* update, lines 477-483: optimize every new individual, swap the lists, return
\* the best value of the generation that was evaluated.  The value goes where
\* the caller puts it: prev_eval (line 429), eval (line 431), or the user.
update_end ==
  /\ pc = "u_loop"
  /\ ~(upd.i < mutation_number(_mutation_ratio, Len(_grammer_list)))
  /\ ~(Len(upd.next_generation) < Len(_grammer_list))
  /\ LET h1 == optimize_all(heap, upd.next_generation)
         max_evaluation_value == upd.evaluated[1][2]
     IN /\ Commit(h1, upd.next_generation, gen, UpdIdle,
                  IF upd.caller = "user"
                  THEN [ObsNone EXCEPT !.op = "update", !.ret = max_evaluation_value]
                  ELSE obs)
        /\ runv' = CASE upd.caller = "run_init" ->
                          [runv EXCEPT !.prev_eval = max_evaluation_value,
                                       !.evals = <<max_evaluation_value>>]
                     [] upd.caller = "run_loop" ->
                          [runv EXCEPT !.eval = max_evaluation_value,
                                       !.evals = Append(@, max_evaluation_value)]
                     [] OTHER -> runv
        /\ pc' = CASE upd.caller = "run_init" -> "run_head"
                   [] upd.caller = "run_loop" -> "run_cmp"
                   [] OTHER -> "ready"
  /\ UNCHANGED <<_input_list, _elite_ratio, _mutation_ratio, _max_unmodified_count>>

\* --------------------------------------------------------------------- run
\* run, lines 428-429.
run_call ==
  /\ pc = "ready"
  /\ runv' = RunIdle
  /\ update_begin("run_init")
  /\ obs' = ObsNone
  /\ UNCHANGED <<heap, _grammer_list, _input_list, _elite_ratio, _mutation_ratio,
                 _max_unmodified_count, gen>>

\* run, line 431: the update of one more generation.
run_loop ==
  /\ pc = "run_head"
  /\ Len(runv.evals) < MaxGen
  /\ update_begin("run_loop")
  /\ UNCHANGED <<heap, _grammer_list, _input_list, _elite_ratio, _mutation_ratio,
                 _max_unmodified_count, gen, runv, obs>>

\* run, lines 432-440.
run_compare ==
  /\ pc = "run_cmp"
  /\ IF run_equal(runv.eval, runv.prev_eval)
     THEN /\ runv' = [runv EXCEPT !.unmodified_count = @ + 1]
          /\ pc' = IF run_stops(runv.unmodified_count + 1, _max_unmodified_count)
                   THEN "done" ELSE "run_head"
          /\ obs' = obs
     ELSE /\ runv' = [runv EXCEPT !.unmodified_count = 0, !.prev_eval = runv.eval]
          /\ pc' = "run_head"
          /\ obs' = [ObsNone EXCEPT !.op = "print", !.cands = print(heap, _grammer_list[1])]
  /\ UNCHANGED <<heap, _grammer_list, _input_list, _elite_ratio, _mutation_ratio,
                 _max_unmodified_count, gen, upd>>

\* ------------------------------------- the operations called directly
\* A caller holding the population calls one operation and looks at what it
\* did (pc = "called"); mutate_node calls may come before it.
\* optimize_tree(_grammer_list[i]) by a caller holding the population.
optimize_call(i) ==
  /\ pc = "ready"
  /\ Commit(optimize_tree(heap, _grammer_list[i]), _grammer_list, gen, upd,
            [ObsNone EXCEPT !.op = "optimize_tree", !.idx = i, !.edits = obs.edits,
                            !.m = NodeCount(heap, _grammer_list[i])])
  /\ UNCHANGED <<_input_list, _elite_ratio, _mutation_ratio,
                 _max_unmodified_count, runv>>
  /\ pc' = "called"

\* mutate_node(r), r the sel-th reference get_nodes returns for individual i.
mutate_call(i, sel, g) ==
  /\ pc = "ready"
  /\ obs.edits < MaxEdits
  /\ LET slot == get_nodes(heap, _grammer_list[i])[sel]
         mn == mutate_node(heap, SlotGet(heap, _grammer_list[i], slot), g)
         w == SlotSet(mn.h, _grammer_list[i], slot, mn.r)
     IN Commit(w.h, [_grammer_list EXCEPT ![i] = w.r], gen, upd,
               [ObsNone EXCEPT !.op = "mutate_node", !.idx = i,
                               !.edits = obs.edits + 1])
  /\ UNCHANGED <<_input_list, _elite_ratio, _mutation_ratio,
                 _max_unmodified_count, pc, runv>>

\* create_crossed_tree(_grammer_list[i], _grammer_list[j]); a and b record the
\* parents as they were when the call was made.
crossed_call(i, j) ==
  /\ pc = "ready"
  /\ \E x \in create_crossed_tree(heap, _grammer_list[i], _grammer_list[j]) :
        Commit(x.h, _grammer_list, gen, upd,
               [ObsNone EXCEPT !.op = "create_crossed_tree", !.idx = i, !.m = j,
                               !.first = x.first, !.second = x.second,
                               !.a = shape(heap, _grammer_list[i]),
                               !.b = shape(heap, _grammer_list[j]),
                               !.edits = obs.edits])
  /\ pc' = "called"
  /\ UNCHANGED <<_input_list, _elite_ratio, _mutation_ratio,
                 _max_unmodified_count, runv>>

\* _grammer_list[i]->evaluate(str): cands is what parse returned, m is
\* ctx.match_count after it, ret the value returned.
evaluate_call(i, str) ==
  /\ pc = "ready"
  /\ obs' = [ObsNone EXCEPT !.op = "evaluate", !.idx = i, !.str = str,
                            !.cands = parse(heap, _grammer_list[i], str).c,
                            !.m = parse(heap, _grammer_list[i], str).m,
                            !.ret = evaluate(heap, _grammer_list[i], str),
                            !.edits = obs.edits]
  /\ pc' = "called"
  /\ UNCHANGED <<heap, _grammer_list, _input_list, _elite_ratio, _mutation_ratio,
                 _max_unmodified_count, gen, upd, runv>>

\* The numbers of elites, mutation offspring and crossover offspring of one
\* update, lines 459-475, for the ratios and the population size of the state.
count_offspring ==
  /\ pc = "count"
  /\ LET n == gen.n
         e == elite_number(_elite_ratio, n)
         m == mutation_number(_mutation_ratio, n)
     IN obs' = [ObsNone EXCEPT !.op = "counts", !.idx = e, !.m = m,
                               !.ret = crossover_number(e + m, n)]
  /\ pc' = "counted"
  /\ UNCHANGED <<heap, _grammer_list, _input_list, _elite_ratio, _mutation_ratio,
                 _max_unmodified_count, gen, upd, runv>>

\* ------------------------------------------------------ specifications
Generate == generate_tree_root \/ generate_tree_step \/ generate_tree_return

UpdateSteps == update_elite \/ update_mutate \/ update_cross \/ update_end

\* The engine: configuration of the ratios, initialization, and any number of
\* update calls.  The corpus stays empty: every fitness is 0, so std::sort may
\* leave the individuals in any order, which covers the orders any corpus gives.
Next ==
  \/ \E r \in RatioInputs : set_elite_ratio(r)
  \/ \E r \in RatioInputs : set_mutation_ratio(r)
  \/ \E n \in 1..MaxPop, k \in 1..MaxNodeNumber : init_grammer(n, k)
  \/ Generate
  \/ update_call
  \/ UpdateSteps

Spec == Init /\ [][Next]_vars

\* run on a configured engine with a corpus, from a small population.
NextRun ==
  \/ \E r \in RatioInputs : set_elite_ratio(r)
  \/ \E r \in RatioInputs : set_mutation_ratio(r)
  \/ \E m \in 0..MaxUnmodified : set_max_unmodified_count(m)
  \/ \E s \in StringsUpTo(MaxStrLen) : append_input(s)
  \/ \E n \in 1..MaxPop, k \in 1..MaxNodeNumber :
       n * k <= MaxInitNodes /\ init_grammer(n, k)
  \/ Generate
  \/ UpdateSteps
  \/ run_call
  \/ run_loop
  \/ run_compare

SpecRun == Init /\ [][NextRun]_vars

\* The tree operations applied directly to the trees generate_tree builds.
NextTree ==
  \/ \E n \in 1..MaxPop, k \in 1..MaxDirectNodes :
       n * k <= MaxDirectBudget /\ init_grammer(n, k)
  \/ Generate
  \/ \E i \in 1..Len(_grammer_list) : optimize_call(i)
  \/ \E i \in 1..Len(_grammer_list) :
       \E sel \in 1..NodeCount(heap, _grammer_list[i]), g \in generate_node :
         mutate_call(i, sel, g)
  \/ \E i, j \in 1..Len(_grammer_list) : crossed_call(i, j)
  \/ \E i \in 1..Len(_grammer_list), s \in StringsUpTo(MaxEvalLen) : evaluate_call(i, s)

SpecTree == Init /\ [][NextTree]_vars

\* The offspring counts of one update, for every accepted pair of ratios and
\* every population size up to MaxCountPop.
CountRatios == {<<0, 1>>, <<1, 20>>, <<1, 3>>, <<1, 2>>, <<2, 3>>, <<1, 1>>}

InitCounts ==
  /\ heap = <<>>
  /\ _grammer_list = <<>>
  /\ _input_list = <<>>
  /\ _elite_ratio \in CountRatios
  /\ _mutation_ratio \in CountRatios
  /\ _max_unmodified_count = 0
  /\ pc = "count"
  /\ gen \in {[GenIdle EXCEPT !.n = n] : n \in 1..MaxCountPop}
  /\ upd = UpdIdle
  /\ runv = RunIdle
  /\ obs = ObsNone

NextCounts == count_offspring

SpecCounts == InitCounts /\ [][NextCounts]_vars

\* ================================================================ claims
NodesOf(h, r) == {Reach(h, r)[x] : x \in 1..Len(Reach(h, r))}

Children(h, n) ==
  (IF h[n].first # NULL THEN 1 ELSE 0) + (IF h[n].second # NULL THEN 1 ELSE 0)

\* The node ids the population reaches, individual after individual.
PopulationNodes ==
  Concat([i \in 1..Len(_grammer_list) |-> Reach(heap, _grammer_list[i])])

\* The number of comparisons at the end of evals that found two successive
\* generations' best values equal.
RECURSIVE Streak(_)
Streak(evals) ==
  IF Len(evals) < 2 THEN 0
  ELSE IF evals[Len(evals)] = evals[Len(evals) - 1]
       THEN 1 + Streak(SubSeq(evals, 1, Len(evals) - 1))
       ELSE 0

\* C1: evaluate(T, s) returns 1.0 if and only if match holds for the residuals
\* of T.parse(s).  (Stated as the claim; the code returns ctx.match_count when
\* match fails, which is 1 after one literal sub-match.)
C1_EvaluateOneIffMatch ==
  obs.op = "evaluate" => (obs.ret = 1 <=> match(obs.cands))

\* C2: match holds for the residuals parse returned iff they are non-empty and
\* contain at least one empty suffix.  (Stated as the claim; the code's match
\* wants every residual empty.)
C2_MatchIffSomeEmptyResidual ==
  obs.op = "evaluate" =>
    (match(obs.cands) <=> \E i \in 1..Len(obs.cands) : obs.cands[i] = <<>>)

C4_PopulationSizeFixed ==
  pc = "ready" => Len(_grammer_list) = gen.n

\* C5: no node object is reachable from two individuals of the population, or
\* twice within one individual.
C5_NoSharedNode ==
  \A nodes \in {PopulationNodes} :
    \A x, y \in 1..Len(nodes) : x # y => nodes[x] # nodes[y]

\* An update that carried one elite over and built the other individual anew
\* has returned, and an individual has more than one node.
C5_Witness ==
  /\ pc = "ready"
  /\ obs.op = "update"
  /\ Len(_grammer_list) = 2
  /\ _elite_ratio = <<1, 2>>
  /\ \E i \in 1..2 : NodeCount(heap, _grammer_list[i]) > 1

\* The number of nodes of a structure shape returned.
RECURSIVE ShapeCount(_)
ShapeCount(s) == IF s = <<>> THEN 0 ELSE 1 + ShapeCount(s[3]) + ShapeCount(s[4])

\* No node of the structure holds a child in a slot beyond its arity.
RECURSIVE ShapeWithinArity(_)
ShapeWithinArity(s) ==
  \/ s = <<>>
  \/ /\ operand_number(s[1]) = 0 => s[3] = <<>>
     /\ operand_number(s[1]) <= 1 => s[4] = <<>>
     /\ ShapeWithinArity(s[3])
     /\ ShapeWithinArity(s[4])

C7_StagnationCounter ==
  pc # "run_cmp" =>
    /\ runv.unmodified_count = Streak(runv.evals)
    /\ pc = "done" => runv.unmodified_count = _max_unmodified_count + 1
    /\ pc # "done" => runv.unmodified_count <= _max_unmodified_count

\* run has returned with max_unmodified_count = 1 after a generation whose best
\* differed reset the counter.
C7_Witness ==
  /\ pc = "done"
  /\ _max_unmodified_count = 1
  /\ Len(runv.evals) = 4
  /\ runv.evals[1] # runv.evals[2]

\* C8 as claimed: with max_unmodified_count = 0 run stops after the first
\* generation whose best does not improve on the initial evaluation, equal or
\* lower.
C8_StopsAtFirstNonImproving ==
  (/\ _max_unmodified_count = 0
   /\ pc \in {"run_head", "done"}
   /\ \E k \in 2..Len(runv.evals) : runv.evals[k] <= runv.evals[1])
  => /\ pc = "done"
     /\ \A k \in 2..(Len(runv.evals) - 1) : runv.evals[k] > runv.evals[1]

\* C8 as amended: with max_unmodified_count = 0 run stops after the first
\* generation whose best is exactly equal to the previous generation's best; a
\* generation whose best differs from it, lower included, does not stop it.
C8_StopsAtFirstEqual ==
  (/\ _max_unmodified_count = 0
   /\ pc # "run_cmp"
   /\ Len(runv.evals) >= 2)
  => /\ pc = "done" <=> runv.evals[Len(runv.evals)] = runv.evals[Len(runv.evals) - 1]
     /\ \A k \in 2..(Len(runv.evals) - 1) : runv.evals[k] # runv.evals[k - 1]

\* With max_unmodified_count = 0 and no elite, a generation whose best was
\* lower than the initial one did not stop run; the next, equal one did.
C8_Witness ==
  /\ _max_unmodified_count = 0
  /\ _elite_ratio = <<0, 1>>
  /\ pc = "done"
  /\ Len(runv.evals) = 3
  /\ runv.evals[2] < runv.evals[1]

\* C9 as claimed: with both ratios 0.05 and a population of 100, crossover
\* fills 95 slots; the elite and mutation counts are floor(ratio * size).
C9_CrossoverFills95 ==
  pc = "counted" =>
    /\ obs.idx * _elite_ratio[2] <= _elite_ratio[1] * gen.n
    /\ _elite_ratio[1] * gen.n < (obs.idx + 1) * _elite_ratio[2]
    /\ obs.m * _mutation_ratio[2] <= _mutation_ratio[1] * gen.n
    /\ _mutation_ratio[1] * gen.n < (obs.m + 1) * _mutation_ratio[2]
    /\ (_elite_ratio = <<1, 20>> /\ _mutation_ratio = <<1, 20>> /\ gen.n = 100)
         => obs.ret = 95

\* C9 as amended: the elite and mutation counts are floor(ratio * size),
\* truncating, and crossover fills the rest, size - elites - mutations slots
\* (none when elites and mutations already fill the list); with both ratios
\* 0.05 and a population of 100 that is 5, 5 and 90.
C9_CrossoverFillsTheRest ==
  pc = "counted" =>
    /\ obs.idx * _elite_ratio[2] <= _elite_ratio[1] * gen.n
    /\ _elite_ratio[1] * gen.n < (obs.idx + 1) * _elite_ratio[2]
    /\ obs.m * _mutation_ratio[2] <= _mutation_ratio[1] * gen.n
    /\ _mutation_ratio[1] * gen.n < (obs.m + 1) * _mutation_ratio[2]
    /\ obs.ret = IF obs.idx + obs.m <= gen.n THEN gen.n - obs.idx - obs.m ELSE 0
    /\ (_elite_ratio = <<1, 20>> /\ _mutation_ratio = <<1, 20>> /\ gen.n = 100)
         => obs.idx = 5 /\ obs.m = 5 /\ obs.ret = 90

\* The counts of the example: ratios 0.05 and 0.05, population 100.
C9_Witness ==
  /\ pc = "counted"
  /\ _elite_ratio = <<1, 20>>
  /\ _mutation_ratio = <<1, 20>>
  /\ gen.n = 100
  /\ obs.ret = 90

\* C10: at the end of the mutation loop's body the offspring just appended
\* holds, at the selected position, the node generate_node produced.  (Stated
\* as the claim; the code stores that node in a local copy of the handle.)
C10_GeneratedNodeInOffspring ==
  upd.node # NULL =>
    /\ upd.next_generation[Len(upd.next_generation)] = upd.clone
    /\ SlotGet(heap, upd.clone, get_nodes(heap, upd.clone)[upd.sel]) = upd.node

====
